---- MODULE Spec2Model ----
(***************************************************************************)
(* Model of the photovoltaic array solver of python_web:                   *)
(* class PVModel of "Proyecto_Final - Prueba_5/app2.py" (construction,     *)
(* validate_inputs, modelo_pv) and its callers.                            *)
(*                                                                         *)
(* Floating point.  The program computes in IEEE binary64.  TLC has 32-bit *)
(* integers only, so a float is modelled here as a binary float with the   *)
(* exponent range of binary64 and a mantissa of MantBits = 24 bits,        *)
(* rounded toward zero: sign * m * 2^e with 2^23 <= m < 2^24, plus zero,   *)
(* the two infinities and NaN, with the IEEE rules for them (inf - inf,    *)
(* 0 * inf, 0 / 0 and anything with a NaN give NaN; x / 0 gives inf as in  *)
(* numpy; overflow gives inf and underflow gives 0).                       *)
(***************************************************************************)
EXTENDS Integers, Sequences, FiniteSets, TLC

\* ------------------------------------------------------------- floats ----

\* Width of the mantissa of a modelled float (binary64 has 53).
MantBits == 24
\* Half of the mantissa width: products of 24-bit mantissas are formed from
\* 12-bit halves so that no intermediate reaches 2^31.
HalfBits == 12
\* Largest and smallest binary exponent of a finite nonzero binary64.
MaxExp == 1023
MinExp == -1074

M24 == 2^MantBits
H12 == 2^HalfBits

Fin(s, m, e) == [c |-> "fin", s |-> s, m |-> m, e |-> e]
NaN == [c |-> "nan", s |-> 1, m |-> 0, e |-> 0]
Inf(s) == [c |-> "inf", s |-> s, m |-> 0, e |-> 0]
Zero == Fin(1, 0, 0)

IsNaN(a) == a.c = "nan"
IsInf(a) == a.c = "inf"
IsFinite(a) == a.c = "fin"
IsZero(a) == a.c = "fin" /\ a.m = 0

\* Number of binary digits of m, 0 < m < 2^31.
BitLen(m) ==
  IF m < 65536
  THEN IF m < 256
       THEN IF m < 16
            THEN IF m < 4 THEN (IF m < 2 THEN 1 ELSE 2)
                          ELSE (IF m < 8 THEN 3 ELSE 4)
            ELSE IF m < 64 THEN (IF m < 32 THEN 5 ELSE 6)
                           ELSE (IF m < 128 THEN 7 ELSE 8)
       ELSE IF m < 4096
            THEN IF m < 1024 THEN (IF m < 512 THEN 9 ELSE 10)
                             ELSE (IF m < 2048 THEN 11 ELSE 12)
            ELSE IF m < 16384 THEN (IF m < 8192 THEN 13 ELSE 14)
                              ELSE (IF m < 32768 THEN 15 ELSE 16)
  ELSE IF m < 16777216
       THEN IF m < 1048576
            THEN IF m < 262144 THEN (IF m < 131072 THEN 17 ELSE 18)
                               ELSE (IF m < 524288 THEN 19 ELSE 20)
            ELSE IF m < 4194304 THEN (IF m < 2097152 THEN 21 ELSE 22)
                                ELSE (IF m < 8388608 THEN 23 ELSE 24)
       ELSE IF m < 268435456
            THEN IF m < 67108864 THEN (IF m < 33554432 THEN 25 ELSE 26)
                                 ELSE (IF m < 134217728 THEN 27 ELSE 28)
            ELSE IF m < 1073741824 THEN (IF m < 536870912 THEN 29 ELSE 30)
                                   ELSE 31

\* m shifted right by k binary places.
Shr(m, k) == IF k > 30 THEN 0 ELSE m \div (2^k)

\* The float sign * m * 2^e, m any natural below 2^31: the mantissa is
\* brought to MantBits digits (truncating), overflow gives an infinity and
\* underflow gives zero.
Norm(s, m, e) ==
  IF m = 0 THEN Zero
  ELSE LET k == BitLen(m)
           m2 == IF k > MantBits THEN m \div (2^(k - MantBits))
                                 ELSE m * (2^(MantBits - k))
           e2 == e + (k - MantBits)
       IN  IF e2 + MantBits - 1 > MaxExp THEN Inf(s)
           ELSE IF e2 + MantBits - 1 < MinExp THEN Zero
           ELSE Fin(s, m2, e2)

\* The float of a Python int n, |n| < 2^31.
FromInt(n) == IF n >= 0 THEN Norm(1, n, 0) ELSE Norm(-1, -n, 0)

FNeg(a) == IF IsNaN(a) \/ IsZero(a) THEN a ELSE [a EXCEPT !.s = -a.s]
FAbs(a) == [a EXCEPT !.s = 1]

\* floor(a * b / 2^24) to within 2 units, for a, b < 2^24.
MulMant(a, b) ==
  LET ah == a \div H12
      al == a % H12
      bh == b \div H12
      bl == b % H12
  IN  ah * bh + ((ah * bl + al * bh) \div H12)

\* floor(a * 2^28 / b) for 0 < a, b < 2^24, by long division, 7 bits a round.
DivMant(a, b) ==
  LET q0 == a \div b
      r0 == a % b
      q1 == q0 * 128 + ((r0 * 128) \div b)
      r1 == (r0 * 128) % b
      q2 == q1 * 128 + ((r1 * 128) \div b)
      r2 == (r1 * 128) % b
      q3 == q2 * 128 + ((r2 * 128) \div b)
      r3 == (r2 * 128) % b
  IN  q3 * 128 + ((r3 * 128) \div b)

FMul(a, b) ==
  IF IsNaN(a) \/ IsNaN(b) THEN NaN
  ELSE IF IsInf(a) \/ IsInf(b)
       THEN (IF IsZero(a) \/ IsZero(b) THEN NaN ELSE Inf(a.s * b.s))
  ELSE Norm(a.s * b.s, MulMant(a.m, b.m), a.e + b.e + MantBits)

FDiv(a, b) ==
  IF IsNaN(a) \/ IsNaN(b) THEN NaN
  ELSE IF IsInf(a) THEN (IF IsInf(b) THEN NaN ELSE Inf(a.s * b.s))
  ELSE IF IsInf(b) THEN Zero
  ELSE IF b.m = 0 THEN (IF a.m = 0 THEN NaN ELSE Inf(a.s * b.s))
  ELSE IF a.m = 0 THEN Zero
  ELSE Norm(a.s * b.s, DivMant(a.m, b.m), a.e - b.e - 28)

FAdd(a, b) ==
  IF IsNaN(a) \/ IsNaN(b) THEN NaN
  ELSE IF IsInf(a) THEN (IF IsInf(b) /\ b.s # a.s THEN NaN ELSE a)
  ELSE IF IsInf(b) THEN b
  ELSE IF a.m = 0 THEN b
  ELSE IF b.m = 0 THEN a
  ELSE LET v == IF a.e >= b.e THEN a.s * a.m + b.s * Shr(b.m, a.e - b.e)
                              ELSE b.s * b.m + a.s * Shr(a.m, b.e - a.e)
           e == IF a.e >= b.e THEN a.e ELSE b.e
       IN  IF v >= 0 THEN Norm(1, v, e) ELSE Norm(-1, -v, e)

FSub(a, b) == FAdd(a, FNeg(b))

\* a < b as IEEE compares: false when either is NaN.
FLt(a, b) ==
  IF IsNaN(a) \/ IsNaN(b) THEN FALSE
  ELSE IF a = b THEN FALSE
  ELSE IF IsInf(a) THEN a.s = -1
  ELSE IF IsInf(b) THEN b.s = 1
  ELSE LET d == FSub(a, b) IN d.s = -1 /\ d.m # 0

\* a <= b as IEEE compares: false when either is NaN.
FLe(a, b) == ~IsNaN(a) /\ ~IsNaN(b) /\ ~FLt(b, a)

\* log2(e) = 1.4426950408889634
Log2E == Fin(1, 12102203, -23)

\* 2^(r / 2^24) in units of 2^-24, 0 <= r < 2^24: the Taylor polynomial of
\* degree 8 in r * ln 2, by Horner's rule (coefficients ln(2)^k / k!).
Pow2Frac(r) ==
  LET t8 == 22
      t7 == 255 + MulMant(r, t8)
      t6 == 2584 + MulMant(r, t7)
      t5 == 22369 + MulMant(r, t6)
      t4 == 161365 + MulMant(r, t5)
      t3 == 931204 + MulMant(r, t4)
      t2 == 4030331 + MulMant(r, t3)
      t1 == 11629079 + MulMant(r, t2)
  IN  M24 + MulMant(r, t1)

\* np.exp: e^a = 2^(a * log2 e), the integer part of the exponent going to
\* the binary exponent and the fraction through Pow2Frac.
FExp(a) ==
  IF IsNaN(a) THEN NaN
  ELSE IF IsInf(a) THEN (IF a.s = 1 THEN Inf(1) ELSE Zero)
  ELSE IF a.m = 0 THEN FromInt(1)
  ELSE LET y == FMul(a, Log2E)
       IN  IF y.m = 0 THEN FromInt(1)
           ELSE IF y.e + MantBits - 1 >= 11
                THEN (IF y.s = 1 THEN Inf(1) ELSE Zero)
           ELSE LET sh == -y.e
                    k0 == IF sh <= MantBits THEN y.m \div (2^sh) ELSE 0
                    r0 == IF sh <= MantBits
                          THEN (y.m % (2^sh)) * (2^(MantBits - sh))
                          ELSE Shr(y.m, sh - MantBits)
                    k == IF y.s = 1 THEN k0
                         ELSE IF r0 = 0 THEN -k0 ELSE -k0 - 1
                    r == IF y.s = 1 \/ r0 = 0 THEN r0 ELSE M24 - r0
                IN  Norm(1, Pow2Frac(r), k - MantBits)

\* n * 10^-k as a float, 0 <= n < 2^31: how a decimal literal of the source
\* is read.
RECURSIVE Dec(_, _)
Dec(n, k) ==
  IF k = 0 THEN FromInt(n)
  ELSE IF k <= 9 THEN FDiv(FromInt(n), FromInt(10^k))
  ELSE FDiv(Dec(n, k - 9), FromInt(10^9))

\* ------------------------------------------------------ Python values ----

\* A Python value: its type and, for a number, its value as a float.
PyInt(n) == [t |-> "int", x |-> FromInt(n)]
PyFloat(x) == [t |-> "float", x |-> x]
PyStr == [t |-> "str", x |-> NaN]

\* isinstance(v, (int, float))
IsIntOrFloat(v) == v.t \in {"int", "float"}
\* isinstance(v, int)
IsInt(v) == v.t = "int"
\* v <= 0 for a number v
LeZero(v) == FLe(v.x, Zero)
\* float * v raises TypeError for a str v ("can't multiply sequence by
\* non-int of type 'float'")
CanMultiply(v) == v.t \in {"int", "float"}

\* -------------------------------------------------- PVModel.__init__ ----

\* The object PVModel(num_panels_series, num_panels_parallel) builds.
NewPVModel(num_panels_series, num_panels_parallel) ==
  [ R_sh |-> Dec(54582, 2),
    k_i |-> Dec(37, 3),
    T_n |-> FromInt(298),
    q |-> Dec(160217646, 27),
    n |-> FromInt(1),
    K |-> Dec(13806503, 30),
    E_g0 |-> Dec(11, 1),
    R_s |-> Dec(39, 2),
    num_panels_series |-> num_panels_series,
    num_panels_parallel |-> num_panels_parallel,
    I_sc |-> FMul(Dec(935, 2), num_panels_parallel.x),
    V_oc |-> FMul(Dec(474, 1), num_panels_series.x),
    N_s |-> FMul(FromInt(72), num_panels_series.x) ]

\* Whether __init__ raises: the TypeError of line 26 or 27.
InitRaises(num_panels_series, num_panels_parallel) ==
  ~CanMultiply(num_panels_parallel) \/ ~CanMultiply(num_panels_series)

\* ------------------------------------------- PVModel.validate_inputs ----

MsgG == "La irradiancia (G) debe ser un numero positivo."
MsgT == "La temperatura (T) debe ser un numero positivo."
MsgSeries == "El numero de paneles en serie debe ser un entero positivo."
MsgParallel == "El numero de paneles en paralelo debe ser un entero positivo."

NoError == [cls |-> "none", msg |-> ""]
ValueError(msg) == [cls |-> "ValueError", msg |-> msg]
TypeError == [cls |-> "TypeError", msg |-> "can't multiply sequence by non-int of type 'float'"]
KeyError == [cls |-> "KeyError", msg |-> "nan"]

\* The checks of validate_inputs, one per line of the source.
BadG(G) == ~IsIntOrFloat(G) \/ LeZero(G)
BadT(T) == ~IsIntOrFloat(T) \/ LeZero(T)
\* The series check with < in place of <=: a count of zero passes.
BadSeriesZeroAllowed(self) ==
  ~IsInt(self.num_panels_series) \/ FLt(self.num_panels_series.x, Zero)
BadSeries(self) == ~IsInt(self.num_panels_series) \/ LeZero(self.num_panels_series)
BadParallel(self) == ~IsInt(self.num_panels_parallel) \/ LeZero(self.num_panels_parallel)

\* What validate_inputs raises, NoError when it returns.
validate_inputs(self, G, T) ==
  IF BadG(G) THEN ValueError(MsgG)
  ELSE IF BadT(T) THEN ValueError(MsgT)
  ELSE IF BadSeries(self) THEN ValueError(MsgSeries)
  ELSE IF BadParallel(self) THEN ValueError(MsgParallel)
  ELSE NoError

\* ------------------------------------------------- PVModel.modelo_pv ----

\* Line 56.
I_rsOf(self, T) ==
  FDiv(self.I_sc,
       FSub(FExp(FDiv(FMul(self.q, self.V_oc),
                      FMul(FMul(FMul(self.n, self.N_s), self.K), T))),
            FromInt(1)))

\* Line 58.
I_oOf(self, I_rs, T) ==
  FMul(FMul(I_rs, FDiv(T, self.T_n)),
       FExp(FDiv(FMul(FMul(self.q, self.E_g0),
                      FSub(FDiv(FromInt(1), self.T_n), FDiv(FromInt(1), T))),
                 FMul(self.n, self.K))))

\* Line 60.
I_phOf(self, G, T) ==
  FMul(FAdd(self.I_sc, FMul(self.k_i, FSub(T, FromInt(298)))),
       FDiv(G, FromInt(1000)))

\* Lines 68-70: the residual of the circuit equation at current I, voltage V.
\* k holds what the closure captures: self, I_ph, I_o, T.
f(k, I, V) ==
  LET u == FAdd(V, FMul(I, k.self.R_s))
  IN  FSub(FSub(FSub(k.I_ph,
                     FMul(k.I_o,
                          FSub(FExp(FDiv(FMul(k.self.q, u),
                                         FMul(FMul(FMul(k.self.n, k.self.K),
                                                   k.self.N_s), k.T))),
                               FromInt(1)))),
                FDiv(u, k.self.R_sh)),
           I)

\* np.linspace(0, stop, num, endpoint=False): the sweep stops one step
\* short of stop.
linspaceNoEndpoint(stop, num) ==
  LET step == FDiv(stop, FromInt(num))
  IN  [i \in 1..num |-> FMul(FromInt(i - 1), step)]

\* np.linspace(0, stop, num): num evenly spaced samples, the step stop/(num-1)
\* times the index, the last one set to stop itself.
linspace(stop, num) ==
  LET step == FDiv(stop, FromInt(num - 1))
  IN  [i \in 1..num |-> IF i < num THEN FMul(FromInt(i - 1), step) ELSE stop]

\* -------------------------------------------- scipy.optimize.fsolve ----
\* fsolve(f, x0, args=(Vpv)) hands MINPACK's hybrd ONE system of len(x0)
\* equations in len(x0) unknowns.  hybrd is modelled by its Newton
\* iteration with the forward-difference Jacobian (which is diagonal here,
\* equation i reading unknown i only); its trust region and its Broyden
\* updates are left out.  What is kept: the step length of the differences,
\* the termination test on the norms of the WHOLE step and the WHOLE
\* iterate, the budget of iterations, the rejection of a step whose
\* residual is not finite, and that fsolve returns the last iterate
\* whatever the outcome (with full_output=0 the flag ier only feeds a
\* RuntimeWarning).

\* Number of Newton iterations a solve may take (hybrd: maxfev, 200*(n+1)
\* evaluations).
MaxIter == 20

\* sqrt(machine epsilon): hybrd's relative step for forward differences and
\* fsolve's default xtol (1.49012e-08 = 2^-26 for binary64; 2^-12 here).
SqrtEps == Fin(1, 2^(MantBits - 1), -(MantBits - 1) - HalfBits)

\* The one element of a one-element set.  A variable bound over {e} holds
\* the value of e, computed once: Only({F(x) : x \in {e}}) is F at e.
Only(S) == CHOOSE y \in S : TRUE

\* Sum of |v[i]| for i in from..Len(v): the norm of the termination test.
RECURSIVE Norm1From(_, _)
Norm1From(v, from) ==
  IF from > Len(v) THEN Zero ELSE FAdd(FAbs(v[from]), Norm1From(v, from + 1))

\* The residuals of the whole system at x.
fvec(k, x, V) == [i \in 1..Len(x) |-> f(k, x[i], V[i])]

AllFinite(v) == \A i \in 1..Len(v) : IsFinite(v[i])
AllZero(v) == \A i \in 1..Len(v) : IsZero(v[i])

\* fdjac1: the forward-difference derivative of an equation in its unknown,
\* at xi where the residual is fi.
fdjac(k, xi, fi, Vi) ==
  LET h == IF IsZero(xi) THEN SqrtEps ELSE FMul(SqrtEps, FAbs(xi))
  IN  FDiv(FSub(f(k, FAdd(xi, h), Vi), fi), h)

\* The Newton step of one unknown, the trial point and its residual.
TrialAt(k, xi, fi, Vi) ==
  Only({ Only({ [p |-> p, wa2 |-> w, wa4 |-> f(k, w, Vi)] : w \in {FAdd(xi, p)} })
         : p \in {FNeg(FDiv(fi, fdjac(k, xi, fi, Vi)))} })

\* The trials of unknowns 1..i, as a sequence.
RECURSIVE Trials(_, _, _, _)
Trials(k, V, st, i) ==
  IF i = 0 THEN <<>>
  ELSE Append(Trials(k, V, st, i - 1), TrialAt(k, st.x[i], st.fv[i], V[i]))

\* The state of a solve as it is entered with the seed x0.  ier: 0 running,
\* 1 converged, 2 budget exhausted, 5 no progress.  A residual that is not
\* finite at x0 makes hybrd reject every step and end with x0 (its norm is
\* NaN, and no comparison with a NaN accepts a step).
hybrdEnter(k, x0, V) ==
  Only({ [x |-> x0, fv |-> fv, iter |-> 0, n |-> Len(x0),
          ier |-> IF ~AllFinite(fv) THEN 5 ELSE IF AllZero(fv) THEN 1 ELSE 0]
         : fv \in {fvec(k, x0, V)} })

\* One iteration of a running solve: the step of every unknown, then ONE
\* test, on the norm of the whole step against the norm of the whole
\* iterate, decides for all of them.
hybrdStep(k, V, st) ==
  Only({ LET p == [i \in 1..st.n |-> t[i].p]
             wa2 == [i \in 1..st.n |-> t[i].wa2]
             wa4 == [i \in 1..st.n |-> t[i].wa4]
         IN  IF ~AllFinite(wa2) \/ ~AllFinite(wa4)
             THEN [st EXCEPT !.ier = 5]
             ELSE [x |-> wa2, fv |-> wa4, iter |-> st.iter + 1, n |-> st.n,
                   ier |-> IF FLe(Norm1From(p, 1), FMul(SqrtEps, Norm1From(wa2, 1)))
                              \/ AllZero(wa4)
                           THEN 1
                           ELSE IF st.iter + 1 >= MaxIter THEN 2 ELSE 0]
         : t \in {Trials(k, V, st, st.n)} })

\* A solve run to its end.
RECURSIVE hybrdRun(_, _, _)
hybrdRun(k, V, st) ==
  IF st.ier # 0 THEN st ELSE hybrdRun(k, V, Only({hybrdStep(k, V, s) : s \in {st}}))

\* fsolve(f, x0, args=(V)) with full_output=0: the last iterate, whatever
\* the outcome.
fsolve(k, x0, V) == hybrdRun(k, V, hybrdEnter(k, x0, V)).x

\* ----------------------------------------- pandas Series.idxmax ----

\* The scan of idxmax: the position of the first largest value that is not
\* NaN among col[i..], best being the position found so far (0: none).
RECURSIVE ArgMaxFrom(_, _, _)
ArgMaxFrom(col, i, best) ==
  IF i > Len(col) THEN best
  ELSE ArgMaxFrom(col, i + 1,
                  IF IsNaN(col[i]) THEN best
                  ELSE IF best = 0 THEN i
                  ELSE IF FLt(col[best], col[i]) THEN i
                  ELSE best)

\* The scan keeping the LAST largest value.
RECURSIVE ArgMaxLastFrom(_, _, _)
ArgMaxLastFrom(col, i, best) ==
  IF i > Len(col) THEN best
  ELSE ArgMaxLastFrom(col, i + 1,
                      IF IsNaN(col[i]) THEN best
                      ELSE IF best = 0 THEN i
                      ELSE IF FLe(col[best], col[i]) THEN i
                      ELSE best)

idxmaxLast(col) == ArgMaxLastFrom(col, 1, 0)

\* Series.idxmax(): positions count from 1 here (the labels of the
\* DataFrame count from 0); 0 stands for the NaN label of an all-NaN column.
idxmax(col) == ArgMaxFrom(col, 1, 0)

\* ------------------------------------------------------------- state ----

\* The callers (requests) of the solver.
Callers == {1, 2}

\* Number of samples of the voltage sweep (line 62 takes 1000).
NumSamples == 4

\* Number of modelo_pv calls a caller makes on its object in SpecRepeat.
MaxCalls == 2

VARIABLES
  pc,       \* pc[c]: where caller c is ("off": not part of the run)
  pv,       \* pv[c]: the object caller c's variable pv refers to (0: none)
  heap,     \* heap[o]: the fields of object o
  frame,    \* frame[c]: the locals of caller c's running modelo_pv call
  ret,      \* ret[c]: how caller c's last call ended, and what it returned
  calls,    \* calls[c]: modelo_pv calls caller c has made
  given,    \* given[c]: the arguments caller c passed (history)
  minpack,  \* minpack[c]: the state of the fsolve of caller c's call, inside
            \* the library: the program sees its x when the solve returns
  first     \* first[c]: arguments and outcome of c's first call (history)

vars == <<pc, pv, heap, frame, ret, calls, given, minpack, first>>

Unset == [c |-> "unset", s |-> 1, m |-> 0, e |-> 0]
PyUnset == [t |-> "unset", x |-> NaN]

NoObject ==
  [ R_sh |-> Unset, k_i |-> Unset, T_n |-> Unset, q |-> Unset, n |-> Unset,
    K |-> Unset, E_g0 |-> Unset, R_s |-> Unset,
    num_panels_series |-> PyUnset, num_panels_parallel |-> PyUnset,
    I_sc |-> Unset, V_oc |-> Unset, N_s |-> Unset ]

EmptyDataFrame == [Corriente |-> <<>>, Voltaje |-> <<>>, Potencia |-> <<>>]

\* The locals of a modelo_pv call before its first line.
NewFrame(G, T) ==
  [ G |-> G, T |-> T, validated |-> FALSE,
    I_rs |-> Unset, I_o |-> Unset, I_ph |-> Unset,
    Vpv |-> <<>>, Ipv |-> <<>>, Ppv |-> <<>>,
    resultados |-> EmptyDataFrame, max_power_idx |-> 0 ]

NoFrameYet == NewFrame(PyUnset, PyUnset)

NoReturn ==
  [ kind |-> "none", err |-> NoError, resultados |-> EmptyDataFrame,
    Vmpp |-> Unset, Impp |-> Unset, P_max |-> Unset ]
Raised(err) == [NoReturn EXCEPT !.kind = "raise", !.err = err]
Returned(resultados, Vmpp, Impp, P_max) ==
  [ kind |-> "return", err |-> NoError, resultados |-> resultados,
    Vmpp |-> Vmpp, Impp |-> Impp, P_max |-> P_max ]

NoGiven == [series |-> PyUnset, parallel |-> PyUnset, G |-> PyUnset, T |-> PyUnset]
NoMinpack == [x |-> <<>>, fv |-> <<>>, iter |-> 0, n |-> 0, ier |-> 0]
NoFirst == [given |-> NoGiven, ret |-> NoReturn]

\* The state before any caller has run; the callers in `active` take part.
InitWith(active) ==
  /\ pc = [c \in Callers |-> IF c \in active THEN "idle" ELSE "off"]
  /\ pv = [c \in Callers |-> 0]
  /\ heap = [o \in Callers |-> NoObject]
  /\ frame = [c \in Callers |-> NoFrameYet]
  /\ ret = [c \in Callers |-> NoReturn]
  /\ calls = [c \in Callers |-> 0]
  /\ given = [c \in Callers |-> NoGiven]
  /\ minpack = [c \in Callers |-> NoMinpack]
  /\ first = [c \in Callers |-> NoFirst]

\* One module-level object shared by every caller.
AllocShared(c) == 1

\* The object a caller's PVModel(...) expression creates: a fresh one, its
\* own (Prueba_3/app.py line 12, Prueba_5/app.py line 16, app2.py line 114).
Alloc(c) == c

\* self of caller c's running call.
Self(c) == heap[pv[c]]

\* What the closure f of caller c's call captures (lines 68-70).
Closure(c) ==
  [self |-> Self(c), I_ph |-> frame[c].I_ph, I_o |-> frame[c].I_o,
   T |-> frame[c].T.x]

\* The end of a call: the locals are gone, the outcome is with the caller.
EndCall(c, outcome) ==
  /\ pc' = [pc EXCEPT ![c] = "ready"]
  /\ ret' = [ret EXCEPT ![c] = outcome]
  /\ frame' = [frame EXCEPT ![c] = NoFrameYet]
  /\ first' = IF first[c].ret.kind = "none"
              THEN [first EXCEPT ![c] = [given |-> given[c], ret |-> outcome]]
              ELSE first

\* pv = PVModel(series, parallel): __init__, lines 15-28.  The arithmetic
\* of lines 26-28 raises TypeError on a count it cannot multiply, and then
\* no object exists and pv is not bound.
Build(c, series, parallel) ==
  /\ given' = [given EXCEPT ![c].series = series, ![c].parallel = parallel]
  /\ IF InitRaises(series, parallel)
     THEN /\ pc' = [pc EXCEPT ![c] = "failed"]
          /\ ret' = [ret EXCEPT ![c] = Raised(TypeError)]
          /\ UNCHANGED <<pv, heap>>
     ELSE /\ pc' = [pc EXCEPT ![c] = "ready"]
          /\ heap' = [heap EXCEPT ![Alloc(c)] = NewPVModel(series, parallel)]
          /\ pv' = [pv EXCEPT ![c] = Alloc(c)]
          /\ ret' = [ret EXCEPT ![c] = NoReturn]
  /\ UNCHANGED <<frame, calls, minpack, first>>

\* A caller builds its object.
Construct(c, series, parallel) ==
  /\ pc[c] = "idle"
  /\ Build(c, series, parallel)

\* A caller whose call has ended builds a new object in place of the one
\* it had (the next request of Prueba_3/app.py index()).
Reconstruct(c, series, parallel) ==
  /\ pc[c] = "ready"
  /\ ret[c].kind # "none"
  /\ Build(c, series, parallel)

\* pv.modelo_pv(G, T) is entered; the caller has made fewer than `limit`
\* calls so far.
Call(c, G, T, limit) ==
  /\ pc[c] = "ready"
  /\ calls[c] < limit
  /\ calls' = [calls EXCEPT ![c] = @ + 1]
  /\ given' = [given EXCEPT ![c].G = G, ![c].T = T]
  /\ frame' = [frame EXCEPT ![c] = NewFrame(G, T)]
  /\ ret' = [ret EXCEPT ![c] = NoReturn]
  /\ minpack' = [minpack EXCEPT ![c] = NoMinpack]
  /\ pc' = [pc EXCEPT ![c] = "L54"]
  /\ UNCHANGED <<pv, heap, first>>

\* Line 54: self.validate_inputs(G, T).
Validate(c) ==
  /\ pc[c] = "L54"
  /\ LET err == validate_inputs(Self(c), frame[c].G, frame[c].T)
     IN  IF err # NoError
         THEN EndCall(c, Raised(err))
         ELSE /\ pc' = [pc EXCEPT ![c] = "L56"]
              /\ frame' = [frame EXCEPT ![c].validated = TRUE]
              /\ UNCHANGED <<ret, first>>
  /\ UNCHANGED <<pv, heap, calls, given, minpack>>

\* A line of modelo_pv that only assigns locals.
Assign(c, at, next, locals) ==
  /\ pc[c] = at
  /\ pc' = [pc EXCEPT ![c] = next]
  /\ frame' = [frame EXCEPT ![c] = locals]
  /\ UNCHANGED <<pv, heap, ret, calls, given, minpack, first>>

\* Line 56.
ComputeI_rs(c) ==
  Assign(c, "L56", "L58",
         [frame[c] EXCEPT !.I_rs = I_rsOf(Self(c), frame[c].T.x)])

\* Line 58.
ComputeI_o(c) ==
  Assign(c, "L58", "L60",
         [frame[c] EXCEPT !.I_o = I_oOf(Self(c), frame[c].I_rs, frame[c].T.x)])

\* Line 60 written as an update of the object: self.I_sc takes the value
\* of the photocurrent.
ComputeI_phInPlace(c) ==
  /\ pc[c] = "L60"
  /\ pc' = [pc EXCEPT ![c] = "L62"]
  /\ frame' = [frame EXCEPT ![c].I_ph = I_phOf(Self(c), frame[c].G.x, frame[c].T.x)]
  /\ heap' = [heap EXCEPT ![pv[c]].I_sc = I_phOf(Self(c), frame[c].G.x, frame[c].T.x)]
  /\ UNCHANGED <<pv, ret, calls, given, minpack, first>>

\* Line 60.
ComputeI_ph(c) ==
  Assign(c, "L60", "L62",
         [frame[c] EXCEPT !.I_ph = I_phOf(Self(c), frame[c].G.x, frame[c].T.x)])

\* Line 62.
Sweep(c) ==
  Assign(c, "L62", "L64",
         [frame[c] EXCEPT !.Vpv = linspace(Self(c).V_oc, NumSamples)])

\* Lines 64-65: np.zeros_like(Vpv), twice.
ZeroVectors(c) ==
  Assign(c, "L64", "L72",
         [frame[c] EXCEPT !.Ipv = [i \in 1..Len(frame[c].Vpv) |-> Zero],
                          !.Ppv = [i \in 1..Len(frame[c].Vpv) |-> Zero]])

\* A seed of zeros: np.zeros_like(Vpv) in place of I_sc * ones.
SeedZeros(c) == [i \in 1..Len(frame[c].Vpv) |-> Zero]

\* The seed of line 72: self.I_sc * np.ones_like(Vpv).
Seed(c) == [i \in 1..Len(frame[c].Vpv) |-> FMul(Self(c).I_sc, FromInt(1))]

\* Line 72, the call: fsolve(f, self.I_sc * np.ones_like(Vpv), args=(Vpv))
\* is entered.
FsolveEnter(c) ==
  /\ pc[c] = "L72"
  /\ minpack' = [minpack EXCEPT ![c] = hybrdEnter(Closure(c), Seed(c), frame[c].Vpv)]
  /\ pc' = [pc EXCEPT ![c] = "hybrd"]
  /\ UNCHANGED <<pv, heap, frame, ret, calls, given, first>>

\* Line 72, inside the library: one iteration of the solve.
HybrdIterate(c) ==
  /\ pc[c] = "hybrd"
  /\ minpack[c].ier = 0
  /\ minpack' = [minpack EXCEPT ![c] = hybrdStep(Closure(c), frame[c].Vpv, @)]
  /\ UNCHANGED <<pc, pv, heap, frame, ret, calls, given, first>>

\* Line 72, the return: Ipv is the last iterate, whatever ier says (a
\* RuntimeWarning is all a failed solve leaves).
FsolveReturn(c) ==
  /\ pc[c] = "hybrd"
  /\ minpack[c].ier # 0
  /\ frame' = [frame EXCEPT ![c].Ipv = minpack[c].x]
  /\ pc' = [pc EXCEPT ![c] = "L73"]
  /\ UNCHANGED <<pv, heap, ret, calls, given, minpack, first>>

\* Line 73: Ppv = Vpv * Ipv.
Power(c) ==
  Assign(c, "L73", "L76",
         [frame[c] EXCEPT !.Ppv = [i \in 1..Len(frame[c].Vpv) |->
                                     FMul(frame[c].Vpv[i], frame[c].Ipv[i])]])

\* Line 76.
Assemble(c) ==
  Assign(c, "L76", "L78",
         [frame[c] EXCEPT !.resultados = [Corriente |-> frame[c].Ipv,
                                          Voltaje |-> frame[c].Vpv,
                                          Potencia |-> frame[c].Ppv]])

\* Line 78.
FindMpp(c) ==
  Assign(c, "L78", "L79",
         [frame[c] EXCEPT !.max_power_idx = idxmax(frame[c].resultados.Potencia)])

\* Lines 79-82: the three .loc reads and the return; .loc with the NaN
\* label of an all-NaN column raises KeyError.
Return(c) ==
  /\ pc[c] = "L79"
  /\ LET i == frame[c].max_power_idx
         r == frame[c].resultados
     IN  IF i = 0 THEN EndCall(c, Raised(KeyError))
         ELSE EndCall(c, Returned(r, r.Voltaje[i], r.Corriente[i], r.Potencia[i]))
  /\ UNCHANGED <<pv, heap, calls, given, minpack>>

\* The lines of a running modelo_pv call of caller c.
Step(c) ==
  \/ Validate(c)
  \/ ComputeI_rs(c)
  \/ ComputeI_o(c)
  \/ ComputeI_ph(c)
  \/ Sweep(c)
  \/ ZeroVectors(c)
  \/ FsolveEnter(c)
  \/ HybrdIterate(c)
  \/ FsolveReturn(c)
  \/ Power(c)
  \/ Assemble(c)
  \/ FindMpp(c)
  \/ Return(c)

\* ------------------------------------------------------------ inputs ----

\* Panel counts a caller may pass: valid ones, zero, a negative one, a
\* float that is not whole, a whole float, a string.
CountInputs ==
  { PyInt(1), PyInt(2), PyInt(0), PyInt(-1), PyFloat(Dec(25, 1)),
    PyFloat(FromInt(2)), PyStr }

\* Irradiances a caller may pass.
GInputs ==
  { PyInt(1000), PyInt(500), PyFloat(Dec(8005, 1)), PyInt(0), PyInt(-5),
    PyFloat(NaN), PyFloat(Inf(1)), PyStr }

\* Temperatures a caller may pass.
TInputs ==
  { PyInt(298), PyInt(1), PyFloat(Dec(3105, 1)), PyInt(0), PyInt(-5),
    PyFloat(NaN), PyFloat(Inf(1)), PyStr }

\* One caller, one call, any inputs.
Init == InitWith({1})

Next ==
  \/ \E series \in CountInputs, parallel \in CountInputs : Construct(1, series, parallel)
  \/ \E G \in GInputs, T \in TInputs : Call(1, G, T, 1)
  \/ Step(1)

Spec == Init /\ [][Next]_vars

\* ---------------------------------------------------- repeated calls ----

\* One caller makes up to MaxCalls calls, on the object it has or on one
\* it builds anew, with ordinary inputs.
RepeatCounts == {PyInt(1), PyInt(2)}
RepeatG == {PyInt(1000), PyInt(500)}
RepeatT == {PyInt(298)}

NextRepeat ==
  \/ \E series \in RepeatCounts, parallel \in RepeatCounts : Construct(1, series, parallel)
  \/ \E series \in RepeatCounts, parallel \in RepeatCounts : Reconstruct(1, series, parallel)
  \/ \E G \in RepeatG, T \in RepeatT : Call(1, G, T, MaxCalls)
  \/ Step(1)

SpecRepeat == Init /\ [][NextRepeat]_vars

\* ------------------------------------------------- concurrent callers ----

\* Two callers (two requests of the web front end), each with its own
\* object and one call, interleaved line by line.
ConcCounts == {PyInt(1), PyInt(2)}
ConcG == {PyInt(1000)}
ConcT == {PyInt(298), PyInt(1)}

InitConc == InitWith(Callers)

NextConc ==
  \E c \in Callers :
    \/ \E series \in ConcCounts : Construct(c, series, PyInt(1))
    \/ \E G \in ConcG, T \in ConcT : Call(c, G, T, 1)
    \/ Step(c)

SpecConc == InitConc /\ [][NextConc]_vars

\* ------------------------------------------- maximum power point alone ----

\* Lines 73-82 on every vector of currents over CurrentSamples, as if
\* fsolve had just returned it: the powers then have ties and negative
\* values.
CurrentSamples == {FromInt(-1), FromInt(0), FromInt(1), FromInt(2)}

MppObject == NewPVModel(PyInt(1), PyInt(1))

InitMpp ==
  /\ pc = [c \in Callers |-> IF c = 1 THEN "L73" ELSE "off"]
  /\ pv = [c \in Callers |-> IF c = 1 THEN Alloc(1) ELSE 0]
  /\ heap = [o \in Callers |-> IF o = Alloc(1) THEN MppObject ELSE NoObject]
  /\ \E I \in [1..NumSamples -> CurrentSamples] :
       frame = [c \in Callers |->
                 IF c = 1
                 THEN [NewFrame(PyInt(1000), PyInt(298)) EXCEPT
                         !.validated = TRUE,
                         !.Vpv = linspace(MppObject.V_oc, NumSamples),
                         !.Ipv = I,
                         !.Ppv = [i \in 1..NumSamples |-> Zero]]
                 ELSE NoFrameYet]
  /\ ret = [c \in Callers |-> NoReturn]
  /\ calls = [c \in Callers |-> IF c = 1 THEN 1 ELSE 0]
  /\ given = [c \in Callers |->
               IF c = 1 THEN [series |-> PyInt(1), parallel |-> PyInt(1),
                              G |-> PyInt(1000), T |-> PyInt(298)]
               ELSE NoGiven]
  /\ minpack = [c \in Callers |-> NoMinpack]
  /\ first = [c \in Callers |-> NoFirst]

NextMpp == Power(1) \/ Assemble(1) \/ FindMpp(1) \/ Return(1)

SpecMpp == InitMpp /\ [][NextMpp]_vars

\* ------------------------------------------------------------ claims ----

\* A call of caller c has ended and its outcome is with the caller.
Done(c) == pc[c] = "ready" /\ ret[c].kind # "none"

\* v is a finite real number greater than zero.
IsPositiveReal(v) == IsIntOrFloat(v) /\ IsFinite(v.x) /\ FLt(Zero, v.x)

\* v is an integer greater than zero.
IsPositiveInteger(v) == IsInt(v) /\ FLt(Zero, v.x)

\* The errors that report a bad G or T, and those that report a bad count.
OperatingConditionErrors == {ValueError(MsgG), ValueError(MsgT)}
ArrayConfigErrors == {ValueError(MsgSeries), ValueError(MsgParallel)}

\* The kind of an error is what a handler selects on: its exception class.
ErrorKind(err) == err.cls

\* C1 (as claimed): on an object with valid counts, a call whose G or T is
\* not a finite real number greater than zero (infinity and NaN included)
\* ends with the operating-condition error, and a call whose G and T are
\* both finite positive reals does not.
C1_OperatingConditionRejected ==
  \A c \in Callers :
    (Done(c) /\ IsPositiveInteger(given[c].series)
             /\ IsPositiveInteger(given[c].parallel))
    => IF IsPositiveReal(given[c].G) /\ IsPositiveReal(given[c].T)
       THEN ret[c].err \notin OperatingConditionErrors
       ELSE ret[c].kind = "raise" /\ ret[c].err \in OperatingConditionErrors

C3_ValidationBeforeNumericWork ==
  \A c \in Callers :
    /\ (pv[c] # 0 /\ Self(c).I_sc # Unset)
       => (~BadSeries(Self(c)) /\ ~BadParallel(Self(c)))
    /\ (frame[c].I_rs # Unset \/ frame[c].Vpv # <<>>) => frame[c].validated

\* C4 (as claimed): a call whose solve did not converge ends with an error,
\* and a returned curve comes from a converged solve and holds no NaN
\* current.
C4_NonConvergenceRaises ==
  \A c \in Callers :
    Done(c) =>
      /\ minpack[c].ier \in {2, 3, 4, 5} => ret[c].kind = "raise"
      /\ ret[c].kind = "return"
         => /\ minpack[c].ier = 1
            /\ \A i \in 1..Len(ret[c].resultados.Corriente) :
                 ~IsNaN(ret[c].resultados.Corriente[i])

\* C6: a returned curve has NumSamples voltages that start at 0, increase
\* strictly and end at V_oc of the object, and each power is the product of
\* the voltage and the current of its row.
C6_SweepAndPower ==
  \A c \in Callers :
    (Done(c) /\ ret[c].kind = "return") =>
      LET V == ret[c].resultados.Voltaje
          I == ret[c].resultados.Corriente
          P == ret[c].resultados.Potencia
      IN  /\ Len(V) = NumSamples /\ Len(I) = NumSamples /\ Len(P) = NumSamples
          /\ V[1] = Zero
          /\ V[NumSamples] = Self(c).V_oc
          /\ \A i \in 1..(NumSamples - 1) : FLt(V[i], V[i + 1])
          /\ \A i \in 1..NumSamples : P[i] = FMul(V[i], I[i])

\* C6, the case: a curve has been returned for PVModel(2, 2) at G = 800.5,
\* T = 310.5, with a converged solve.
C6_Witness ==
  /\ Done(1) /\ ret[1].kind = "return"
  /\ given[1] = [series |-> PyInt(2), parallel |-> PyInt(2),
                 G |-> PyFloat(Dec(8005, 1)), T |-> PyFloat(Dec(3105, 1))]
  /\ minpack[1].ier = 1
  /\ FLt(Zero, ret[1].P_max)

\* The current fsolve returns for sample i when it is handed that sample
\* alone, seeded with element i of the seed.
SolvedAlone(c, i) == fsolve(Closure(c), <<Seed(c)[i]>>, <<frame[c].Vpv[i]>>)[1]

MaxRows(P) ==
  {i \in 1..Len(P) : ~IsNaN(P[i]) /\ \A j \in 1..Len(P) : ~FLt(P[i], P[j])}

\* C5: P_max is the largest power of the returned curve, Vmpp and Impp are
\* the voltage and the current of the same row, and among rows that tie
\* for the largest power that row is the first one (the lowest voltage).
C5_MppIsFirstMaximum ==
  \A c \in Callers :
    (Done(c) /\ ret[c].kind = "return") =>
      LET r == ret[c].resultados
          i == CHOOSE m \in MaxRows(r.Potencia) :
                 \A j \in MaxRows(r.Potencia) : m <= j
      IN  /\ \A j \in 1..Len(r.Potencia) : FLe(r.Potencia[j], ret[c].P_max)
          /\ ret[c].P_max = r.Potencia[i]
          /\ ret[c].Vmpp = r.Voltaje[i]
          /\ ret[c].Impp = r.Corriente[i]

\* C5, the case: a curve has been returned in which two rows of different
\* voltage and current tie for a largest power above zero.
C5_Witness ==
  /\ Done(1) /\ ret[1].kind = "return"
  /\ FLt(Zero, ret[1].P_max)
  /\ \E i, j \in MaxRows(ret[1].resultados.Potencia) :
       /\ i < j
       /\ ret[1].resultados.Voltaje[i] # ret[1].resultados.Voltaje[j]
       /\ ret[1].resultados.Corriente[i] # ret[1].resultados.Corriente[j]

\* The integer a count holds.
CountOf(v) == CHOOSE n \in 1..9 : FromInt(n) = v.x

\* The float a is the rational num / den to within two units of its last
\* place (it comes from two truncating operations), by integer arithmetic
\* on its mantissa.
IsRational(a, num, den) ==
  /\ IsFinite(a) /\ a.s = 1 /\ a.e <= 0
  /\ den * a.m - num * 2^(-a.e) \in (-2 * den)..(2 * den)

\* The float a is the integer n exactly.
IsInteger(a, n) == IsFinite(a) /\ a.s = 1 /\ a.e <= 0 /\ a.m = n * 2^(-a.e)

\* C7: from construction on, before, during and after every call, the
\* object of a caller holds I_sc = 9.35 x parallel, V_oc = 47.4 x series
\* and N_s = 72 x series for the counts it was built with.
C7_DerivedConstants ==
  \A c \in Callers :
    (pv[c] # 0 /\ pc[c] # "failed") =>
      LET series == CountOf(given[c].series)
          parallel == CountOf(given[c].parallel)
      IN  /\ IsRational(Self(c).I_sc, 935 * parallel, 100)
          /\ IsRational(Self(c).V_oc, 474 * series, 10)
          /\ IsInteger(Self(c).N_s, 72 * series)
          /\ Self(c).num_panels_series = given[c].series
          /\ Self(c).num_panels_parallel = given[c].parallel

\* C7, the case: a second call at G = 500 has returned a curve on
\* PVModel(2, 2).
C7_Witness ==
  /\ Done(1) /\ calls[1] >= 2 /\ ret[1].kind = "return"
  /\ given[1].series = PyInt(2) /\ given[1].parallel = PyInt(2)
  /\ given[1].G = PyInt(500) /\ first[1].given.G = PyInt(500)

\* C8: a call with the configuration, G and T of the caller's first call
\* ends as the first call did: the same curve, Vmpp, Impp and P_max,
\* whether on the same object or on one built anew.
C8_Idempotent ==
  \A c \in Callers :
    (Done(c) /\ given[c] = first[c].given) => ret[c] = first[c].ret

\* C8, the case: a later call with the inputs of the first one has returned
\* a curve from a converged solve.
C8_Witness ==
  /\ Done(1) /\ calls[1] >= 2
  /\ given[1] = first[1].given
  /\ ret[1].kind = "return" /\ minpack[1].ier = 1

\* modelo_pv(G, T) on PVModel(series, parallel) with nobody else running:
\* lines 54-82 in one piece.
AloneOutcome(g) ==
  LET self == NewPVModel(g.series, g.parallel)
      err == validate_inputs(self, g.G, g.T)
  IN  IF err # NoError THEN Raised(err)
      ELSE
        LET I_rs == I_rsOf(self, g.T.x)
            I_o == I_oOf(self, I_rs, g.T.x)
            I_ph == I_phOf(self, g.G.x, g.T.x)
            Vpv == linspace(self.V_oc, NumSamples)
            Ipv == fsolve([self |-> self, I_ph |-> I_ph, I_o |-> I_o, T |-> g.T.x],
                          [i \in 1..NumSamples |-> FMul(self.I_sc, FromInt(1))],
                          Vpv)
            Ppv == [i \in 1..NumSamples |-> FMul(Vpv[i], Ipv[i])]
            i == idxmax(Ppv)
        IN  IF i = 0 THEN Raised(KeyError)
            ELSE Returned([Corriente |-> Ipv, Voltaje |-> Vpv, Potencia |-> Ppv],
                          Vpv[i], Ipv[i], Ppv[i])

\* C9: whatever the other caller does meanwhile, the call of a caller ends
\* with the outcome its own inputs give when it runs alone.
C9_CallersIsolated ==
  [][\A c \in Callers :
       (pc[c] \in {"L54", "L79"} /\ pc'[c] = "ready")
       => ret'[c] = AloneOutcome(given[c])]_vars

\* C9, the case: caller 1 has a returned curve while caller 2, with another
\* configuration, is in the middle of its solve.
C9_Witness ==
  /\ Done(1) /\ ret[1].kind = "return"
  /\ pc[2] = "hybrd" /\ minpack[2].iter >= 1
  /\ given[1].series # given[2].series

====
